---- MODULE Spec2Model ----
(***************************************************************************)
(* Generation lifecycle of CubitsAtWork: the Layout component (the         *)
(* orchestrator), its four input adapters (NaturalLanguageInput,           *)
(* CircuitSelector, CircuitImporter type="image", CircuitFileUploader),    *)
(* the requests they have in flight, the settle timers Layout sets, and    *)
(* the measurement table SimulationResults synthesizes for the committed   *)
(* artifact.                                                               *)
(*                                                                         *)
(* One action is one browser task: an event handler together with the      *)
(* re-render and the effects React runs before the next task.              *)
(***************************************************************************)
EXTENDS Integers, Sequences, FiniteSets, TLC

\* ------------------------------------------------------------------ bounds
MaxAttempts == 2    \* generation requests issued in one behaviour
MaxResets == 2      \* cap on Layout.resetCounter
MaxQubits == 5      \* largest num_qubits a response carries

\* --------------------------------------------------------------- constants
Channels == {"text", "template", "image", "file"}
Null == "null"                               \* a null string
NoFile == "nofile"                           \* file === null
\* a null CircuitResponse
NoArtifact ==
    [id |-> 0, channel |-> Null, circuit_type |-> Null, num_qubits |-> 0,
     error |-> Null, explanationError |-> Null]
\* simulationResults === null
NoTable ==
    [of |-> 0, counts |-> <<>>, numQubits |-> 0, totalShots |-> 0,
     probabilities |-> <<>>]

\* typed text: empty, whitespace only, a description
TextInputs == {"", "  ", "ghz"}
\* files the user can pick: one the adapter accepts, one it rejects
Files == {"okfile", "badfile"}
TemplateTypes == {"bell_state", "ghz_state"}
\* the message carried by an Error the service call throws
ServiceMessages == {"detail"}
\* a thrown value that is not an Error
NotAnError == "notAnError"
\* what a successful response carries: the circuit, and the optional error
\* fields of CircuitResponse and of its explanation
Responses ==
    { [circuit_type |-> "bell_state", num_qubits |-> 2,
       error |-> Null, explanationError |-> Null],
      [circuit_type |-> "w_state", num_qubits |-> 3,
       error |-> Null, explanationError |-> "explanation failed"],
      [circuit_type |-> "custom", num_qubits |-> 2,
       error |-> "circuit failed", explanationError |-> Null] }

VARIABLES
    activeTab,          \* Layout.activeTab
    generating,         \* Layout.is{NaturalLanguage,Template,Image,File}Generating
    showResults,        \* Layout.showResults
    circuitData,        \* App.circuitData (Layout prop)
    pendingData,        \* Layout.pendingDataRef.current
    simulationResults,  \* Layout.simulationResults
    error,              \* Layout.error
    resetCounter,       \* Layout.resetCounter
    resetEvents,        \* 'resetInputs' events dispatched on document
    adapter,            \* local state of the mounted adapter instance
    requests,           \* service calls awaiting their response
    timers,             \* setTimeout callbacks not yet run, in firing order
    nextId,             \* number of the next request
    lastOp,             \* observer: the handler that ran last
    session,            \* observer: current attempt, 0 after reset / tab change
    discarded,          \* observer: attempts staged, then reset before settle
    race,               \* observer: progress of the A/B race scenario
    firstRun,           \* observer: input and table of the first simulation
    vis,                \* CircuitVisualization's state
    simError,           \* SimulationResults.error
    lastCompleted,      \* observer: request whose response arrived last
    manualZoom          \* observer: zoom level the user set by hand

vars == <<activeTab, generating, showResults, circuitData, pendingData,
          simulationResults, error, resetCounter, resetEvents, adapter,
          requests, timers, nextId, lastOp, session, discarded, race,
          firstRun, vis, simError, lastCompleted, manualZoom>>

layoutVars == <<activeTab, generating, showResults, circuitData, pendingData,
                simulationResults, error, resetCounter, resetEvents>>

observerVars ==
    <<session, discarded, race, firstRun, lastCompleted, manualZoom>>

\* the local state of the Result Views
viewVars == <<vis, simError>>

\* ------------------------------------------------------------ adapters
\* useState initial values of an adapter instance
\* the parameters object; num_qubits 0 stands for the key being absent
NoParameters == [num_qubits |-> 0]

\* JSON.stringify(parameters)
stringify(parameters) ==
    IF parameters = NoParameters THEN "{}"
    ELSE "{\"num_qubits\":" \o ToString(parameters.num_qubits) \o "}"

\* the values the number input of a template's parameter can be set to;
\* the built-in bell_state entry has no parameters, the templates of a
\* fetched list each have the parameter num_qubits
ParameterValues(circuitTypes, selectedType) ==
    IF circuitTypes = TemplateTypes /\ selectedType \in circuitTypes
    THEN {3, 4} ELSE {}

MountedAdapter ==
    [input |-> "", file |-> NoFile, error |-> Null,
     selectedType |-> "bell_state", lastGeneratedConfig |-> "",
     circuitTypes |-> {"bell_state"}, loadingTemplates |-> FALSE,
     parameters |-> NoParameters]

\* the adapter of a tab after its mount effects: CircuitSelector calls
\* fetchCircuitTypes, which sets the loading flag and awaits the list
Mounted(tab) ==
    IF tab = "template"
    THEN [MountedAdapter EXCEPT !.loadingTemplates = TRUE]
    ELSE MountedAdapter

\* CircuitSelector's effect on [selectedCircuit, circuitTypes]; the
\* selectedCircuit prop is circuitData?.circuit_type
SelectedCircuitEffect(tab, a, data) ==
    IF tab = "template" /\ data /= NoArtifact /\ a.circuitTypes /= {}
    THEN [a EXCEPT !.selectedType = data.circuit_type,
                   !.parameters = IF data.circuit_type \in a.circuitTypes
                                  THEN NoParameters ELSE @]
    ELSE a

\* String.prototype.trim on the typed texts
Trim(s) == IF s = "  " THEN "" ELSE s

\* the file-type checks of handleFileChange
FileAccepted(f) == f = "okfile"

\* the text handleFileChange shows for a file it rejects
ValidationMessage(c) ==
    IF c = "image" THEN "Please upload an image file"
    ELSE "Please upload a supported quantum circuit file"

\* `${selectedType}-${JSON.stringify(parameters)}` (no parameters modelled)
ConfigString(a) == a.selectedType \o "-" \o stringify(a.parameters)

\* error instanceof Error ? error.message : <the adapter's fallback text>
FallbackMessage(c) ==
    CASE c = "text" -> "Failed to generate circuit. Please try again."
      [] c = "template" -> "Failed to generate circuit. Please try again later."
      [] OTHER -> "An unexpected error occurred"

ErrorMessage(c, thrown) ==
    IF thrown = NotAnError THEN FallbackMessage(c) ELSE thrown

\* the CircuitResponse a request yields
Artifact(id, c, response) ==
    [id |-> id, channel |-> c,
     circuit_type |-> response.circuit_type,
     num_qubits |-> response.num_qubits,
     error |-> response.error,
     explanationError |-> response.explanationError]

\* observer record of a handler call: which, on which channel, for which
\* request, with which message argument
Op(op, ch, id, msg) == [op |-> op, ch |-> ch, id |-> id, msg |-> msg]
NoOp == Op("init", Null, 0, Null)
NoRace == [a |-> 0, b |-> 0, stage |-> "none"]
NoRun == [circuit_type |-> Null, numQubits |-> 0, counts |-> <<>>]
NoManual == [set |-> FALSE, level |-> 0]

\* zoom levels are counted in twentieths: One is the level 1 (100%), Tenth
\* the step 0.1 of the zoom buttons
One == 20
Tenth == 2

\* useState initial values of CircuitVisualization
MountedVis ==
    [zoomLevel |-> One, optimalZoom |-> One, isFullScreen |-> FALSE,
     imageWidth |-> 0, containerWidth |-> 0]

\* the Result Views are taken off the page: their local state is gone
UnmountViews ==
    /\ vis' = MountedVis
    /\ simError' = Null
    /\ manualZoom' = NoManual

\* ------------------------------------------------------------ rendering
isGenerating == \E c \in Channels : generating[c]

ResultViewsRendered ==
    circuitData /= NoArtifact /\ showResults /\ ~isGenerating

\* disabled={isGenerating} on the four tab buttons
TabEnabled == ~isGenerating

\* the Reset button of the mounted adapter is rendered only when its own
\* isGenerating prop is false
ResetButtonShown == ~generating[activeTab]

\* the Generate button of the mounted adapter is rendered and enabled
SubmitEnabled ==
    /\ ~generating[activeTab]
    /\ CASE activeTab = "text" -> Trim(adapter.input) /= ""
         [] activeTab = "template" ->
                /\ ~adapter.loadingTemplates
                /\ adapter.lastGeneratedConfig /= ConfigString(adapter)
         [] OTHER -> adapter.file /= NoFile

\* ------------------------------------------- the measurement synthesizer
\* SimulationResults.handleRunSimulation.  A bitstring is the sequence of
\* its digits, leftmost first: "00" is <<0, 0>>.  counts, a JavaScript
\* object, is the sequence of its [state, count] entries in the order the
\* keys were first written.

totalShots == 1024

\* circuit_type values a response can carry: the three the synthesizer
\* recognizes, and others whose first letters a..j give every value of
\* charCodeAt(0) % 10
CircuitTypes ==
    {"bell_state", "ghz_state", "w_state",
     "adder", "bernstein_vazirani", "custom", "deutsch_jozsa",
     "entanglement", "fourier", "grover", "hadamard", "ising", "jordan",
     "kitaev"}

\* circuit_type.charCodeAt(0)
charCodeAt0(circuit_type) ==
    CASE circuit_type = "adder" -> 97
      [] circuit_type \in {"bell_state", "bernstein_vazirani"} -> 98
      [] circuit_type = "custom" -> 99
      [] circuit_type = "deutsch_jozsa" -> 100
      [] circuit_type = "entanglement" -> 101
      [] circuit_type = "fourier" -> 102
      [] circuit_type \in {"ghz_state", "grover"} -> 103
      [] circuit_type = "hadamard" -> 104
      [] circuit_type = "ising" -> 105
      [] circuit_type = "jordan" -> 106
      [] circuit_type = "kitaev" -> 107
      [] circuit_type = "w_state" -> 119

\* d.repeat(n)
Repeat(d, n) == [k \in 1..n |-> d]

\* i.toString(2)
RECURSIVE toString2(_)
toString2(i) == IF i < 2 THEN <<i>> ELSE toString2(i \div 2) \o <<i % 2>>

\* s.padStart(n, '0'): pads on the left, never shortens
padStart(s, n) == IF Len(s) >= n THEN s ELSE Repeat(0, n - Len(s)) \o s

\* Math.min
Min(a, b) == IF a <= b THEN a ELSE b

\* 2 ** n
RECURSIVE Pow2(_)
Pow2(n) == IF n = 0 THEN 1 ELSE 2 * Pow2(n - 1)

\* counts[state] = count
Put(counts, state, count) ==
    IF \E k \in DOMAIN counts : counts[k].state = state
    THEN [k \in DOMAIN counts |->
            IF counts[k].state = state
            THEN [state |-> state, count |-> count] ELSE counts[k]]
    ELSE Append(counts, [state |-> state, count |-> count])

\* counts[state]
Get(counts, state) ==
    counts[CHOOSE k \in DOMAIN counts : counts[k].state = state].count

\* Object.keys(counts), Object.values(counts)
Keys(counts) == {counts[k].state : k \in DOMAIN counts}
RECURSIVE Sum(_)
Sum(counts) ==
    IF counts = <<>> THEN 0 ELSE Head(counts).count + Sum(Tail(counts))

\* circuitData.num_qubits || (circuitData as any).parameters?.num_qubits || 3
\* (CircuitResponse has no parameters field; a num_qubits that is 0 or
\* missing is the value 0 here, both being falsy)
NumQubits(data) == IF data.num_qubits /= 0 THEN data.num_qubits ELSE 3

\* the run throws: '0'.repeat(numQubits) is a RangeError for a negative
\* count; no other statement of the four branches throws
Throws(circuit_type, numQubits) ==
    circuit_type = "ghz_state" /\ numQubits < 0

\* (maxStates - 1).toString(2).padStart(numQubits, '0') for a negative
\* numQubits: maxStates is 2 ** numQubits, a fraction, and the key is the
\* text "-0.1", "-0.11", ...
FractionKey(numQubits) ==
    <<"-", "0", ".">> \o [k \in 1..(0 - numQubits) |-> "1"]

\* a double that is m * 2^e, m odd or zero
RECURSIVE Dyadic(_, _)
Dyadic(m, e) ==
    IF m = 0 THEN [m |-> 0, e |-> 0]
    ELSE IF m % 2 = 0 THEN Dyadic(m \div 2, e + 1)
    ELSE [m |-> m, e |-> e]

\* the exponent of a power of two
RECURSIVE Log2(_)
Log2(n) == IF n <= 1 THEN 0 ELSE 1 + Log2(n \div 2)

\* mutant: the share in percent
Quotient_percent(count) == Dyadic(count * 100, 0 - Log2(totalShots))

\* count / totalShots: totalShots is a power of two, the division is exact
Quotient(count) == Dyadic(count, 0 - Log2(totalShots))

\* Object.fromEntries(Object.entries(counts).map(...))
Probabilities(counts) ==
    [k \in DOMAIN counts |->
        [state |-> counts[k].state, probability |-> Quotient(counts[k].count)]]


\* mutant: an even split
BellCounts_even ==
    LET c00 == Put(<<>>, <<0, 0>>, totalShots \div 2)
    IN Put(c00, <<1, 1>>, totalShots - Get(c00, <<0, 0>>))

\* the bell_state branch: Math.floor(totalShots * 0.48) on '00', the rest
\* on '11'
BellCounts ==
    LET c00 == Put(<<>>, <<0, 0>>, (totalShots * 48) \div 100)
    IN Put(c00, <<1, 1>>, totalShots - Get(c00, <<0, 0>>))


\* mutant: the keys of the bell_state branch
GhzCounts_bellKeys(numQubits) ==
    LET zeros == <<0, 0>>
        ones == <<1, 1>>
        c0 == Put(<<>>, zeros, (totalShots * 48) \div 100)
    IN Put(c0, ones, totalShots - Get(c0, zeros))

\* the ghz_state branch
GhzCounts(numQubits) ==
    LET zeros == Repeat(0, numQubits)
        ones == Repeat(1, numQubits)
        c0 == Put(<<>>, zeros, (totalShots * 48) \div 100)
    IN Put(c0, ones, totalShots - Get(c0, zeros))


\* the loop of the w_state branch, from iteration i on
RECURSIVE WStateLoop(_, _, _, _)
WStateLoop(i, numQubits, counts, remainingShots) ==
    IF i >= numQubits THEN counts
    ELSE LET baseCount == totalShots \div numQubits
             state == [k \in 1..numQubits |-> IF k = i + 1 THEN 1 ELSE 0]
         IN IF i < numQubits - 1
            THEN WStateLoop(i + 1, numQubits, Put(counts, state, baseCount),
                            remainingShots - baseCount)
            ELSE WStateLoop(i + 1, numQubits,
                            Put(counts, state, remainingShots),
                            remainingShots)

\* mutant: every outcome gets baseCount
WStateCounts_noRemainder(numQubits) ==
    [k \in 1..numQubits |->
        [state |-> [j \in 1..numQubits |-> IF j = k THEN 1 ELSE 0],
         count |-> totalShots \div numQubits]]

\* the w_state branch
WStateCounts(numQubits) == WStateLoop(0, numQubits, <<>>, totalShots)


\* mutant: the share grows ten times as fast with the position, so that a
\* share can take every remaining shot
RECURSIVE DefaultLoop_wholeShare(_, _, _, _, _, _)
DefaultLoop_wholeShare(i, maxStates, numQubits, circuit_type, counts, remainingShots) ==
    IF i >= maxStates - 1 THEN [counts |-> counts, rest |-> remainingShots]
    ELSE LET stateKey == padStart(toString2(i), numQubits)
             digit == charCodeAt0(circuit_type) % 10
             count == (remainingShots * (10 + 20 * (i % 3) * digit)) \div 100
             put == Put(counts, stateKey, Min(count, remainingShots))
         IN DefaultLoop_wholeShare(i + 1, maxStates, numQubits, circuit_type,
                                   put, remainingShots - Get(put, stateKey))

\* mutant: the factor is taken from the character code modulo 7
RECURSIVE DefaultLoop_mod7(_, _, _, _, _, _)
DefaultLoop_mod7(i, maxStates, numQubits, circuit_type, counts, remainingShots) ==
    IF i >= maxStates - 1 THEN [counts |-> counts, rest |-> remainingShots]
    ELSE LET stateKey == padStart(toString2(i), numQubits)
             digit == charCodeAt0(circuit_type) % 7
             count == (remainingShots * (10 + 2 * (i % 3) * digit)) \div 100
             put == Put(counts, stateKey, Min(count, remainingShots))
         IN DefaultLoop_mod7(i + 1, maxStates, numQubits, circuit_type,
                              put, remainingShots - Get(put, stateKey))

\* the loop of the last branch, from iteration i on.  The share
\* Math.floor(remainingShots * (0.1 + (i % 3) * 0.2 * factor)) with
\* factor = (charCodeAt(0) % 10) / 10 is floor(remainingShots *
\* (10 + 2 * (i % 3) * (charCodeAt(0) % 10)) / 100); the double arithmetic
\* gives the same integer for every remainingShots the loop reaches
RECURSIVE DefaultLoop(_, _, _, _, _, _)
DefaultLoop(i, maxStates, numQubits, circuit_type, counts, remainingShots) ==
    IF i >= maxStates - 1 THEN [counts |-> counts, rest |-> remainingShots]
    ELSE LET stateKey == padStart(toString2(i), numQubits)
             digit == charCodeAt0(circuit_type) % 10
             count == (remainingShots * (10 + 2 * (i % 3) * digit)) \div 100
             put == Put(counts, stateKey, Min(count, remainingShots))
         IN DefaultLoop(i + 1, maxStates, numQubits, circuit_type, put,
                        remainingShots - Get(put, stateKey))

\* mutant: the state keys are not padded
DefaultCounts_unpadded(circuit_type, numQubits) ==
    LET maxStates == Min(Pow2(numQubits), 16)
        loop == DefaultLoop(0, maxStates, 1, circuit_type, <<>>,
                            totalShots)
    IN IF loop.rest > 0
       THEN Put(loop.counts, toString2(maxStates - 1), loop.rest)
       ELSE loop.counts

\* the last branch: any other circuit_type.  For a negative numQubits
\* maxStates - 1 is negative, the loop body never runs and all shots go
\* to the last key
DefaultCounts(circuit_type, numQubits) ==
    IF numQubits < 0
    THEN Put(<<>>, FractionKey(numQubits), totalShots)
    ELSE LET maxStates == Min(Pow2(numQubits), 16)
             loop == DefaultLoop(0, maxStates, numQubits, circuit_type, <<>>,
                                 totalShots)
         IN IF loop.rest > 0
            THEN Put(loop.counts,
                     padStart(toString2(maxStates - 1), numQubits),
                     loop.rest)
            ELSE loop.counts

\* mutant: the last branch stops after its loop, the rest is not assigned
Synthesize_noLeftover(circuit_type, numQubits) ==
    CASE circuit_type = "bell_state" -> BellCounts
      [] circuit_type = "ghz_state" -> GhzCounts(numQubits)
      [] circuit_type = "w_state" -> WStateCounts(numQubits)
      [] OTHER -> DefaultLoop(0, Min(Pow2(numQubits), 16), numQubits,
                              circuit_type, <<>>, totalShots).counts

\* the counts handleRunSimulation builds
Synthesize(circuit_type, numQubits) ==
    CASE circuit_type = "bell_state" -> BellCounts
      [] circuit_type = "ghz_state" -> GhzCounts(numQubits)
      [] circuit_type = "w_state" -> WStateCounts(numQubits)
      [] OTHER -> DefaultCounts(circuit_type, numQubits)


\* mutant: the new counts are added to those of the table already shown
SimulationResultsOf_merged(data) ==
    LET new == Synthesize(data.circuit_type, NumQubits(data))
        old == simulationResults.counts
    IN [of |-> data.id,
        counts |-> [k \in DOMAIN new |->
                      IF \E j \in DOMAIN old : old[j].state = new[k].state
                      THEN [state |-> new[k].state,
                            count |-> new[k].count + Get(old, new[k].state)]
                      ELSE new[k]],
        numQubits |-> NumQubits(data),
        totalShots |-> totalShots,
        probabilities |-> Probabilities(new)]

\* the object handed to setResults
SimulationResultsOf(data) ==
    LET counts == Synthesize(data.circuit_type, NumQubits(data))
    IN [of |-> data.id,
        counts |-> counts,
        numQubits |-> NumQubits(data),
        totalShots |-> totalShots,
        probabilities |-> Probabilities(counts)]

\* mutant: only the top-level error field is looked at
ExplanationView_topOnly(data) ==
    IF data = NoArtifact THEN "placeholder"
    ELSE IF data.error /= Null THEN "error"
    ELSE "explanation"

\* EducationalExplanation: what the panel renders for circuitData
ExplanationView(data) ==
    IF data = NoArtifact THEN "placeholder"
    ELSE IF data.error /= Null THEN "error"
    ELSE IF data.explanationError /= Null THEN "error"
    ELSE "explanation"

\* ------------------------------------------------------------------ Init
Init ==
    /\ activeTab = "text"
    /\ generating = [c \in Channels |-> FALSE]
    /\ showResults = FALSE
    /\ circuitData = NoArtifact
    /\ pendingData = NoArtifact
    /\ simulationResults = NoTable
    /\ error = Null
    /\ resetCounter = 0
    /\ resetEvents = 0
    /\ adapter = MountedAdapter
    /\ requests = {}
    /\ timers = <<>>
    /\ nextId = 1
    /\ lastOp = NoOp
    /\ session = 0
    /\ discarded = {}
    /\ race = NoRace
    /\ firstRun = NoRun
    /\ vis = MountedVis
    /\ simError = Null
    /\ lastCompleted = 0
    /\ manualZoom = NoManual


\* ------------------------------------------------- Layout's handlers

\* mutant: the start handler sets the flag only
StartGeneration_keepShown(c) ==
    /\ generating' = [generating EXCEPT ![c] = TRUE]
    /\ UNCHANGED <<activeTab, showResults, circuitData, pendingData,
                   simulationResults, error, resetCounter, resetEvents>>

\* mutant: the start handler also clears the failure message
StartGeneration_clearsError(c) ==
    /\ generating' = [generating EXCEPT ![c] = TRUE]
    /\ showResults' = FALSE
    /\ simulationResults' = NoTable
    /\ error' = Null
    /\ UNCHANGED <<activeTab, circuitData, pendingData, resetCounter,
                   resetEvents>>

\* handleStart{NaturalLanguage,Template,Image,File}Generation
StartGeneration(c) ==
    /\ generating' = [generating EXCEPT ![c] = TRUE]
    /\ showResults' = FALSE
    /\ simulationResults' = NoTable
    /\ UNCHANGED <<activeTab, circuitData, pendingData, error, resetCounter,
                   resetEvents>>


\* mutant: the in-flight flag is cleared when the response is staged
Generated_clearsFlag(c, data) ==
    /\ pendingData' = data
    /\ timers' = Append(timers, [ch |-> c, id |-> data.id])
    /\ generating' = [generating EXCEPT ![c] = FALSE]
    /\ UNCHANGED <<activeTab, showResults, circuitData, simulationResults,
                   error, resetCounter, resetEvents>>

\* mutant: a response that arrives within the settle delay of an earlier
\* one does not replace the staged artifact
Generated_firstWins(c, data) ==
    /\ pendingData' = IF timers /= <<>> THEN pendingData ELSE data
    /\ timers' = Append(timers, [ch |-> c, id |-> data.id])
    /\ UNCHANGED <<activeTab, generating, showResults, circuitData,
                   simulationResults, error, resetCounter, resetEvents>>

\* handle{NaturalLanguage,Template,Image,File}Generated: stage the response
\* and set the 500 ms timer
Generated(c, data) ==
    /\ pendingData' = data
    /\ timers' = Append(timers, [ch |-> c, id |-> data.id])
    /\ UNCHANGED <<activeTab, generating, showResults, circuitData,
                   simulationResults, error, resetCounter, resetEvents>>


\* mutant: the callback commits without setShowResults(true)
SettleCallback_keepHidden(c) ==
    /\ simulationResults' = NoTable
    /\ circuitData' = pendingData
    /\ error' = Null
    /\ generating' = [generating EXCEPT ![c] = FALSE]
    /\ UNCHANGED <<activeTab, showResults, pendingData, resetCounter,
                   resetEvents>>

\* mutant: the callback commits and leaves the in-flight flag set
SettleCallback_keepsFlag(c) ==
    /\ simulationResults' = NoTable
    /\ circuitData' = pendingData
    /\ error' = Null
    /\ showResults' = TRUE
    /\ UNCHANGED <<activeTab, generating, pendingData, resetCounter,
                   resetEvents>>

\* mutant: the callback clears the in-flight flag of every channel
SettleCallback_clearsAllFlags(c) ==
    /\ simulationResults' = NoTable
    /\ circuitData' = pendingData
    /\ error' = Null
    /\ generating' = [ch \in Channels |-> FALSE]
    /\ showResults' = TRUE
    /\ UNCHANGED <<activeTab, pendingData, resetCounter, resetEvents>>

\* mutant: the commit leaves the measurement table of the view alone
SettleCallback_keepsTable(c) ==
    /\ circuitData' = pendingData
    /\ error' = Null
    /\ generating' = [generating EXCEPT ![c] = FALSE]
    /\ showResults' = TRUE
    /\ UNCHANGED <<activeTab, pendingData, simulationResults, resetCounter,
                   resetEvents>>

\* the callback handed to setTimeout by handle...Generated of channel c
SettleCallback(c) ==
    /\ simulationResults' = NoTable
    /\ circuitData' = pendingData
    /\ error' = Null
    /\ generating' = [generating EXCEPT ![c] = FALSE]
    /\ showResults' = TRUE
    /\ UNCHANGED <<activeTab, pendingData, resetCounter, resetEvents>>


\* mutant: the handler shows a text of its own instead of its argument
GenerationFailed_generic(c, errorMessage) ==
    /\ generating' = [generating EXCEPT ![c] = FALSE]
    /\ error' = "Generation failed"
    /\ UNCHANGED <<activeTab, showResults, circuitData, pendingData,
                   simulationResults, resetCounter, resetEvents, timers>>

\* handle{NaturalLanguage,Template,Image,File}GenerationFailed
GenerationFailed(c, errorMessage) ==
    /\ generating' = [generating EXCEPT ![c] = FALSE]
    /\ error' = errorMessage
    /\ UNCHANGED <<activeTab, showResults, circuitData, pendingData,
                   simulationResults, resetCounter, resetEvents, timers>>


\* mutant: the reset leaves pendingDataRef.current alone
handleResetCircuit_keepPending ==
    /\ circuitData' = NoArtifact
    /\ pendingData' = pendingData
    /\ simulationResults' = NoTable
    /\ error' = Null
    /\ showResults' = FALSE
    /\ resetCounter' = resetCounter + 1
    /\ resetEvents' = resetEvents + 1
    /\ generating' = [c \in Channels |-> FALSE]
    /\ adapter' = Mounted(activeTab')
    /\ requests' = {[r EXCEPT !.live = FALSE] : r \in requests}

\* mutant: the reset leaves the four in-flight flags as they are
handleResetCircuit_keepsFlags ==
    /\ circuitData' = NoArtifact
    /\ pendingData' = NoArtifact
    /\ simulationResults' = NoTable
    /\ error' = Null
    /\ showResults' = FALSE
    /\ resetCounter' = resetCounter + 1
    /\ resetEvents' = resetEvents + 1
    /\ UNCHANGED generating
    /\ adapter' = Mounted(activeTab')
    /\ requests' = {[r EXCEPT !.live = FALSE] : r \in requests}

\* handleResetCircuit; the new resetCounter changes the adapter's key, so
\* the render that follows mounts a fresh adapter instance
handleResetCircuit ==
    /\ circuitData' = NoArtifact
    /\ pendingData' = NoArtifact
    /\ simulationResults' = NoTable
    /\ error' = Null
    /\ showResults' = FALSE
    /\ resetCounter' = resetCounter + 1
    /\ resetEvents' = resetEvents + 1
    /\ generating' = [c \in Channels |-> FALSE]
    /\ adapter' = Mounted(activeTab')
    /\ requests' = {[r EXCEPT !.live = FALSE] : r \in requests}

\* what a reset or a tab change does to the observers
ObserveReset ==
    /\ session' = 0
    /\ discarded' = discarded \cup {timers[i].id : i \in DOMAIN timers}
    /\ race' = NoRace
    /\ lastCompleted' = 0
    /\ UnmountViews
    /\ UNCHANGED firstRun


\* mutant: the tab's onClick only calls setActiveTab(tab); the effect of
\* useEffect[activeTab] and the mount of the other adapter remain
SelectTab_effectOnly(tab) ==
    /\ resetCounter < MaxResets
    /\ activeTab' = tab
    /\ simulationResults' = NoTable
    /\ generating' = [c \in Channels |-> FALSE]
    /\ error' = Null
    /\ adapter' = Mounted(tab)
    /\ requests' = {[r EXCEPT !.live = FALSE] : r \in requests}
    /\ ObserveReset
    /\ lastOp' = Op("selectTab", tab, 0, Null)
    /\ UNCHANGED <<showResults, circuitData, pendingData, resetCounter,
                   resetEvents, timers, nextId>>

\* mutant: a click on the tab that is active already does nothing
SelectTab_sameTabIgnored(tab) ==
    /\ resetCounter < MaxResets
    /\ activeTab' = tab
    /\ IF tab = activeTab
       THEN UNCHANGED <<circuitData, pendingData, simulationResults, error,
                        showResults, resetCounter, resetEvents, generating,
                        adapter, requests, session, discarded, race,
                        lastCompleted, vis, simError, manualZoom, firstRun>>
       ELSE handleResetCircuit /\ ObserveReset
    /\ lastOp' = Op("selectTab", tab, 0, Null)
    /\ UNCHANGED <<timers, nextId>>

\* onClick of a tab button: setActiveTab(tab); handleResetCircuit(); then
\* useEffect[activeTab], which clears what the reset has cleared already
SelectTab(tab) ==
    /\ resetCounter < MaxResets
    /\ activeTab' = tab
    /\ handleResetCircuit
    /\ ObserveReset
    /\ lastOp' = Op("selectTab", tab, 0, Null)
    /\ UNCHANGED <<timers, nextId>>

\* the adapter's handleReset (its Reset button): onResetCircuit()
ResetClicked ==
    /\ resetCounter < MaxResets
    /\ UNCHANGED activeTab
    /\ handleResetCircuit
    /\ ObserveReset
    /\ lastOp' = Op("reset", activeTab, 0, Null)
    /\ UNCHANGED <<timers, nextId>>

\* ------------------------------------------------- the user's controls
\* a tab button pressed while it is enabled
ClickTab ==
    \E tab \in Channels : TabEnabled /\ SelectTab(tab)

\* the Reset button pressed while it is shown
ClickReset ==
    ResetButtonShown /\ ResetClicked

\* a tab's onClick delivered although a channel is Generating
RaceTab ==
    \E tab \in Channels : ~TabEnabled /\ SelectTab(tab)

\* reset delivered although the active channel is Generating
RaceReset ==
    ~ResetButtonShown /\ ResetClicked

\* NaturalLanguageInput textarea onChange
SetInput ==
    \E v \in TextInputs :
        /\ activeTab = "text"
        /\ ~generating["text"]
        /\ v /= adapter.input
        /\ adapter' = [adapter EXCEPT !.input = v]
        /\ lastOp' = Op("setInput", "text", 0, Null)
        /\ UNCHANGED <<layoutVars, requests, timers, nextId, observerVars,
                       viewVars>>

\* handleFileChange of CircuitFileUploader (its input is disabled while
\* Generating) and handleFileChange / handleDrop of CircuitImporter (the
\* drop area takes a file at any time)
handleFileChange ==
    \E f \in Files :
        /\ activeTab \in {"image", "file"}
        /\ activeTab = "file" => ~generating["file"]
        /\ adapter' = IF FileAccepted(f)
                      THEN [adapter EXCEPT !.file = f, !.error = Null]
                      ELSE [adapter EXCEPT
                              !.error = ValidationMessage(activeTab)]
        /\ adapter' /= adapter
        /\ lastOp' = Op("fileChange", activeTab, 0, Null)
        /\ UNCHANGED <<layoutVars, requests, timers, nextId, observerVars,
                       viewVars>>

\* CircuitSelector.handleTypeChange
handleTypeChange ==
    \E t \in adapter.circuitTypes :
        /\ activeTab = "template"
        /\ ~generating["template"]
        /\ ~adapter.loadingTemplates
        /\ t /= adapter.selectedType
        /\ adapter' = [adapter EXCEPT !.selectedType = t,
                                      !.parameters = NoParameters,
                                      !.lastGeneratedConfig = ""]
        /\ lastOp' = Op("typeChange", "template", 0, Null)
        /\ UNCHANGED <<layoutVars, requests, timers, nextId, observerVars,
                       viewVars>>

\* handleSubmit / handleGenerate of the mounted adapter, past its
\* validation: onStartGeneration(); setError(null); the request is issued
handleSubmit ==
    /\ SubmitEnabled
    /\ nextId <= MaxAttempts
    /\ StartGeneration(activeTab)
    /\ adapter' = [adapter EXCEPT
                     !.error = Null,
                     !.lastGeneratedConfig =
                         IF activeTab = "template" THEN ConfigString(adapter)
                         ELSE @]
    /\ requests' = requests \cup
                     {[id |-> nextId, channel |-> activeTab, live |-> TRUE]}
    /\ nextId' = nextId + 1
    /\ lastOp' = Op("start", activeTab, nextId, Null)
    /\ session' = nextId
    /\ race' = NoRace
    /\ UnmountViews
    /\ UNCHANGED <<timers, discarded, firstRun, lastCompleted>>

\* mutant: the request stays open after its success signal
ResolveWith_keepsRequest(responses) ==
    \E r \in requests, response \in responses :
        /\ Generated(r.channel, Artifact(r.id, r.channel, response))
        /\ requests' = requests
        /\ lastOp' = Op("generated", r.channel, r.id, Null)
        /\ race' = IF race.stage = "Bcommitted" /\ race.a = r.id
                   THEN [race EXCEPT !.stage = "Aarrived"]
                   ELSE NoRace
        /\ lastCompleted' = r.id
        /\ UNCHANGED <<adapter, nextId, session, discarded, firstRun,
                       manualZoom, viewVars>>

\* the awaited service call returns one of the given responses:
\* onCircuitGenerated(circuitData)
ResolveWith(responses) ==
    \E r \in requests, response \in responses :
        /\ Generated(r.channel, Artifact(r.id, r.channel, response))
        /\ requests' = requests \ {r}
        /\ lastOp' = Op("generated", r.channel, r.id, Null)
        /\ race' = IF race.stage = "Bcommitted" /\ race.a = r.id
                   THEN [race EXCEPT !.stage = "Aarrived"]
                   ELSE NoRace
        /\ lastCompleted' = r.id
        /\ UNCHANGED <<adapter, nextId, session, discarded, firstRun,
                       manualZoom, viewVars>>

Resolve == ResolveWith(Responses)

\* mutant: the catch block of CircuitSelector leaves lastGeneratedConfig
Reject_keepsConfig ==
    \E r \in requests, thrown \in ServiceMessages \cup {NotAnError} :
        /\ GenerationFailed(r.channel, ErrorMessage(r.channel, thrown))
        /\ requests' = requests \ {r}
        /\ adapter' = IF r.live
                      THEN [adapter EXCEPT
                              !.error = ErrorMessage(r.channel, thrown)]
                      ELSE adapter
        /\ lastOp' = Op("failed", r.channel, r.id,
                       ErrorMessage(r.channel, thrown))
        /\ UNCHANGED <<nextId, observerVars, viewVars>>

\* the awaited service call throws: the adapter's catch block
Reject ==
    \E r \in requests, thrown \in ServiceMessages \cup {NotAnError} :
        /\ GenerationFailed(r.channel, ErrorMessage(r.channel, thrown))
        /\ requests' = requests \ {r}
        /\ adapter' = IF r.live
                      THEN [adapter EXCEPT
                              !.error = ErrorMessage(r.channel, thrown),
                              !.lastGeneratedConfig = ""]
                      ELSE adapter
        /\ lastOp' = Op("failed", r.channel, r.id,
                       ErrorMessage(r.channel, thrown))
        /\ UNCHANGED <<nextId, observerVars, viewVars>>

\* what the service can answer to GET /circuits/templates
TemplateAnswers == {"failed", "empty", "list"}

\* mutant: the catch block reports the failure in the adapter
FetchSettled_reported(a, answer) ==
    [a EXCEPT !.loadingTemplates = FALSE,
              !.error = IF answer = "failed" THEN "Failed to load templates"
                        ELSE @,
              !.circuitTypes = IF answer = "list" THEN TemplateTypes ELSE @]

\* the adapter after fetchCircuitTypes has run to its end: a transport
\* error, a non-ok status and a body that is not an array all throw into
\* the empty catch block
FetchSettled(a, answer) ==
    [a EXCEPT !.loadingTemplates = FALSE,
              !.circuitTypes = IF answer = "list" THEN TemplateTypes ELSE @]

\* fetchCircuitTypes after the await, and the effect on circuitTypes
fetchCircuitTypes ==
    /\ activeTab = "template"
    /\ adapter.loadingTemplates
    /\ \E answer \in TemplateAnswers :
         /\ adapter' = IF answer = "list"
                       THEN SelectedCircuitEffect(
                                activeTab, FetchSettled(adapter, answer),
                                circuitData)
                       ELSE FetchSettled(adapter, answer)
         /\ lastOp' = Op("templates", "template", 0, answer)
    /\ UNCHANGED <<layoutVars, requests, timers, nextId, observerVars,
                   viewVars>>

\* the oldest timer fires (all timers have the same 500 ms delay)
SettleCore ==
    /\ timers /= <<>>
    /\ SettleCallback(Head(timers).ch)
    /\ timers' = Tail(timers)
    /\ lastOp' = Op("commit", Head(timers).ch, Head(timers).id, Null)
    /\ race' =
         LET t == Head(timers)
             older == {r \in requests : r.id < t.id /\ r.channel /= t.ch}
         IN IF race.stage = "Aarrived" THEN race
            ELSE IF pendingData.id = t.id /\ older /= {}
                 THEN [a |-> (CHOOSE r \in older :
                                  \A q \in older : r.id <= q.id).id,
                       b |-> t.id, stage |-> "Bcommitted"]
                 ELSE NoRace
    /\ adapter' = SelectedCircuitEffect(activeTab, adapter, pendingData)
    /\ UNCHANGED <<requests, nextId, session, discarded, firstRun,
                   lastCompleted, manualZoom, simError>>

\* the 500 ms timer fires; what the Result Views measure when they are
\* rendered again is not followed
SettleTimeout == SettleCore /\ UNCHANGED vis

\* the body of SimulationResults.handleRunSimulation
\* setError(null), the try block, and the catch block when it throws
RunSimulation ==
    /\ circuitData /= NoArtifact
    /\ IF Throws(circuitData.circuit_type, NumQubits(circuitData))
       THEN /\ simError' = "Failed to run simulation. Please try again."
            /\ UNCHANGED simulationResults
       ELSE /\ simulationResults' = SimulationResultsOf(circuitData)
            /\ simError' = Null
    /\ UNCHANGED <<activeTab, generating, showResults, circuitData,
                   pendingData, error, resetCounter, resetEvents, adapter,
                   requests, timers, nextId, session, discarded, race,
                   lastCompleted, manualZoom, vis>>

\* what a simulation run does to the observer of the first run
ObserveRun ==
    firstRun' = IF firstRun = NoRun
                THEN [circuit_type |-> circuitData.circuit_type,
                      numQubits |-> NumQubits(circuitData),
                      counts |-> simulationResults'.counts]
                ELSE firstRun

\* handleRunSimulation run by the panel's effect once it is mounted without
\* results (a task of its own, after the render that mounted the panel)
handleRunSimulation ==
    /\ ResultViewsRendered
    /\ simulationResults = NoTable
    /\ RunSimulation
    /\ lastOp' = Op("simulate", activeTab, circuitData.id, Null)
    /\ UNCHANGED firstRun

\* the validation at the head of handleSubmit: setError(...); return.
\* CircuitSelector.handleGenerate returns without a message
SubmitMessage(c) ==
    CASE c = "text" -> "Please enter a circuit description"
      [] c = "image" -> "Please select a circuit image first"
      [] c = "file" -> "Please select a circuit file first"
      [] OTHER -> Null

\* mutant: the adapter reports the validation failure to Layout
SubmitRejected_reported(c) ==
    /\ adapter' = IF c = "template" THEN adapter
                  ELSE [adapter EXCEPT !.error = SubmitMessage(c)]
    /\ GenerationFailed(c, SubmitMessage(c))
    /\ UNCHANGED <<requests, nextId>>

SubmitRejected(c) ==
    /\ adapter' = IF c = "template" THEN adapter
                  ELSE [adapter EXCEPT !.error = SubmitMessage(c)]
    /\ UNCHANGED <<layoutVars, requests, timers, nextId>>

\* handleSubmit / handleGenerate called with nothing to submit (the
\* Generate button is rendered, and disabled for that reason)
handleSubmitInvalid ==
    /\ ~generating[activeTab]
    /\ ~SubmitEnabled
    /\ SubmitRejected(activeTab)
    /\ lastOp' = Op("invalid", activeTab, 0, SubmitMessage(activeTab))
    /\ UNCHANGED <<observerVars, viewVars>>

\* ------------------------------------------- the synthesizer's inputs
\* responses of every circuit type and qubit count
SynthResponses ==
    { [circuit_type |-> t, num_qubits |-> n,
       error |-> Null, explanationError |-> Null] :
         t \in CircuitTypes, n \in 1..MaxQubits }

SynthResolve == ResolveWith(SynthResponses)

\* responses whose num_qubits is below 1: negative, or zero / missing
FallbackQubits == {-1, 0}

FallbackResponses ==
    { [circuit_type |-> t, num_qubits |-> n,
       error |-> Null, explanationError |-> Null] :
         t \in CircuitTypes, n \in FallbackQubits }

FallbackResolve == ResolveWith(FallbackResponses)

\* the effect's run, observed
SynthEffect ==
    /\ ResultViewsRendered
    /\ simulationResults = NoTable
    /\ RunSimulation
    /\ ObserveRun
    /\ lastOp' = Op("simulate", activeTab, circuitData.id, Null)

\* the Run Simulation button pressed while a table is shown
SynthButton ==
    /\ ResultViewsRendered
    /\ simulationResults /= NoTable
    /\ RunSimulation
    /\ ObserveRun
    /\ lastOp' = Op("rerun", activeTab, circuitData.id, Null)

\* ------------------------------------------------------ specifications
\* the program behind its controls
Next ==
    \/ ClickTab
    \/ ClickReset
    \/ SetInput
    \/ handleFileChange
    \/ fetchCircuitTypes
    \/ handleTypeChange
    \/ handleSubmit
    \/ Resolve
    \/ Reject
    \/ SettleTimeout
    \/ handleRunSimulation

Spec == Init /\ [][Next]_vars

\* the handlers when a tab click or a reset is delivered while a channel is
\* Generating
NextRace ==
    \/ Next
    \/ RaceTab
    \/ RaceReset

SpecRace == Init /\ [][NextRace]_vars

\* the pending slot and its timers: text and template generations, with
\* tab clicks and resets delivered only while a channel is Generating
NextSlot ==
    \/ SetInput
    \/ fetchCircuitTypes
    \/ handleSubmit
    \/ Resolve
    \/ Reject
    \/ SettleTimeout
    \/ RaceTab
    \/ RaceReset

SpecSlot == Init /\ [][NextSlot]_vars

\* setTimeout callbacks run once their delay has elapsed
SpecSlotFair == SpecSlot /\ WF_vars(SettleTimeout)

\* the handlers when a submit is delivered while there is nothing to submit
NextInvalid ==
    \/ Next
    \/ handleSubmitInvalid

SpecInvalid == Init /\ [][NextInvalid]_vars

\* mutant: a parameter change leaves lastGeneratedConfig as it is
ParameterChanged_keepsConfig(a, value) ==
    [a EXCEPT !.parameters = [num_qubits |-> value]]

\* setParameters(prev => ({...prev, [paramName]: value})) and
\* setLastGeneratedConfig('')
ParameterChanged(a, value) ==
    [a EXCEPT !.parameters = [num_qubits |-> value],
              !.lastGeneratedConfig = ""]

\* CircuitSelector.handleParameterChange (the inputs are disabled while
\* Generating and not rendered while the list is loading)
handleParameterChange ==
    /\ activeTab = "template"
    /\ ~generating["template"]
    /\ ~adapter.loadingTemplates
    /\ \E value \in ParameterValues(adapter.circuitTypes,
                                     adapter.selectedType) :
         /\ adapter.parameters /= [num_qubits |-> value]
         /\ adapter' = ParameterChanged(adapter, value)
    /\ lastOp' = Op("paramChange", "template", 0, Null)
    /\ UNCHANGED <<layoutVars, requests, timers, nextId, observerVars,
                   viewVars>>

\* CircuitSelector.handleGenerate returning at its second check: the
\* channel is Generating or the configuration is the one submitted last
handleGenerateIgnored ==
    /\ activeTab = "template"
    /\ \/ generating["template"]
       \/ ConfigString(adapter) = adapter.lastGeneratedConfig
    /\ lastOp' = Op("ignored", "template", 0, Null)
    /\ UNCHANGED <<layoutVars, adapter, requests, timers, nextId,
                   observerVars, viewVars>>

\* the template adapter with its parameter inputs and its duplicate check
NextTemplate ==
    \/ Next
    \/ handleParameterChange
    \/ handleGenerateIgnored

SpecTemplate == Init /\ [][NextTemplate]_vars

\* the synthesizer applied to the artifacts of successive text
\* generations, over every circuit type and qubit count
NextSynth ==
    \/ SetInput
    \/ handleSubmit
    \/ SynthResolve
    \/ SettleTimeout
    \/ SynthEffect
    \/ SynthButton

SpecSynth == Init /\ [][NextSynth]_vars

\* the synthesizer applied to artifacts whose num_qubits is below 1
NextFallback ==
    \/ SetInput
    \/ handleSubmit
    \/ FallbackResolve
    \/ SettleTimeout
    \/ handleRunSimulation

SpecFallback == Init /\ [][NextFallback]_vars

\* ---------------------------------------------------------------------
\* CircuitVisualization: auto-fit and manual zoom

\* the zoom-in button has no upper limit; the model stops at this level
MaxZoom == 24

\* naturalWidth / metadata.width of the diagram
ImageWidths == {400, 800, 1600}

\* contentRef.current.clientWidth
ContainerWidths == {0, 80, 400, 800}

\* what the variables outside the visualization do during its handlers
VisFrame ==
    UNCHANGED <<layoutVars, adapter, requests, timers, nextId, session,
                discarded, race, firstRun, lastCompleted, simError>>

\* mutant: the width ratio is applied without the limit of 1
AutoZoom_unclamped(v) ==
    IF v.imageWidth > 0 /\ v.containerWidth > 0
    THEN LET widthRatio == (v.containerWidth * One) \div v.imageWidth
         IN [v EXCEPT !.optimalZoom = widthRatio, !.zoomLevel = widthRatio]
    ELSE v

\* the effect on [imageDimensions, containerDimensions]
AutoZoom(v) ==
    IF v.imageWidth > 0 /\ v.containerWidth > 0
    THEN LET widthRatio == (v.containerWidth * One) \div v.imageWidth
             newZoom == IF v.containerWidth < v.imageWidth
                        THEN widthRatio ELSE One
         IN [v EXCEPT !.optimalZoom = newZoom, !.zoomLevel = newZoom]
    ELSE v

\* the commit renders the Result Views again: the mount effects measure
\* the container and take the diagram's width from its metadata (0 when
\* it has none), then the auto-fit effect runs
SettleAndMeasure ==
    /\ SettleCore
    /\ \E cw \in ContainerWidths, iw \in ImageWidths \cup {0} :
         vis' = AutoZoom([MountedVis EXCEPT !.containerWidth = cw,
                                            !.imageWidth = iw])

\* updateDimensions as the window's resize listener
updateDimensions ==
    /\ ResultViewsRendered
    /\ \E cw \in ContainerWidths :
         vis' = AutoZoom([vis EXCEPT !.containerWidth = cw])
    /\ lastOp' = Op("resize", activeTab, circuitData.id, Null)
    /\ UNCHANGED manualZoom
    /\ VisFrame

\* toggleFullScreen, and the effect on [isFullScreen] that measures the
\* container again
toggleFullScreen ==
    /\ ResultViewsRendered
    /\ \E cw \in ContainerWidths :
         vis' = AutoZoom([vis EXCEPT !.isFullScreen = ~vis.isFullScreen,
                                     !.containerWidth = cw])
    /\ lastOp' = Op("fullScreen", activeTab, circuitData.id, Null)
    /\ UNCHANGED manualZoom
    /\ VisFrame

\* handleImageLoad of a diagram without metadata
handleImageLoad ==
    /\ ResultViewsRendered
    /\ vis.imageWidth = 0
    /\ \E iw \in ImageWidths :
         vis' = AutoZoom([vis EXCEPT !.imageWidth = iw])
    /\ lastOp' = Op("imageLoad", activeTab, circuitData.id, Null)
    /\ UNCHANGED manualZoom
    /\ VisFrame

\* mutant: the zoom-out step has no floor
zoomOut_noFloor(prev) == prev - Tenth

\* prev => Math.max(0.1, prev - 0.1)
zoomOut(prev) == IF prev - Tenth > Tenth THEN prev - Tenth ELSE Tenth

\* prev => prev + 0.1
zoomIn(prev) == prev + Tenth

\* the zoom-out button
ZoomOut ==
    /\ ResultViewsRendered
    /\ vis' = [vis EXCEPT !.zoomLevel = zoomOut(vis.zoomLevel)]
    /\ manualZoom' = [set |-> TRUE, level |-> zoomOut(vis.zoomLevel)]
    /\ lastOp' = Op("zoomOut", activeTab, vis.zoomLevel, Null)
    /\ VisFrame

\* the zoom-in button
ZoomIn ==
    /\ ResultViewsRendered
    /\ zoomIn(vis.zoomLevel) <= MaxZoom
    /\ vis' = [vis EXCEPT !.zoomLevel = zoomIn(vis.zoomLevel)]
    /\ manualZoom' = [set |-> TRUE, level |-> zoomIn(vis.zoomLevel)]
    /\ lastOp' = Op("zoomIn", activeTab, vis.zoomLevel, Null)
    /\ VisFrame

\* mutant: fitting goes back to the level 1
FitToContainer_full(v) == [v EXCEPT !.zoomLevel = One]

\* setZoomLevel(optimalZoom)
FitToContainer(v) == [v EXCEPT !.zoomLevel = v.optimalZoom]

\* the 'Fit to container' button; lastOp.id counts the presses in a row
handleFitToContainer ==
    /\ ResultViewsRendered
    /\ vis' = FitToContainer(vis)
    /\ manualZoom' = NoManual
    /\ lastOp' = Op("fit", activeTab,
                    IF lastOp.op = "fit" THEN 2 ELSE 1, Null)
    /\ VisFrame

\* one text generation after another, and the visualization's controls
\* while a diagram is shown
NextZoom ==
    \/ SetInput
    \/ handleSubmit
    \/ Resolve
    \/ SettleAndMeasure
    \/ updateDimensions
    \/ toggleFullScreen
    \/ handleImageLoad
    \/ ZoomOut
    \/ ZoomIn
    \/ handleFitToContainer

SpecZoom == Init /\ [][NextZoom]_vars

\* ================================================================ claims
\* C1. Race discard: generation is started on channel A; before A's request
\* resolves generation is started on another channel B; B's response
\* arrives and is committed; then A's stale response arrives.  Once every
\* settle delay has elapsed the committed artifact is B's, not A's.
C1_RaceDiscard ==
    (race.stage = "Aarrived" /\ timers = <<>>) => circuitData.id = race.b

\* C2. Race rule: an artifact that onGenerated staged and that a reset or a
\* change of the active channel overtook before its settle delay elapsed is
\* never committed; when its settle timer fires the committed artifact is
\* still absent and no Result View is revealed.
C2_RaceRule ==
    /\ circuitData.id \notin discarded
    /\ (lastOp.op = "commit" /\ lastOp.id \in discarded)
           => (circuitData = NoArtifact /\ ~ResultViewsRendered)

\* C3. The committed artifact, if any, is that of the most recent
\* generation attempt on the active channel; the response of an attempt
\* superseded by a reset, a channel change or a newer attempt never becomes
\* the committed artifact.
C3_OnlyCurrentAttempt ==
    (showResults /\ circuitData /= NoArtifact)
        => (circuitData.id = session /\ circuitData.channel = activeTab)

\* C4 (as stated). Result Views are rendered if and only if an artifact is
\* committed and no channel is Generating.
C4_GatingAsStated ==
    ResultViewsRendered <=> (circuitData /= NoArtifact /\ ~isGenerating)

\* C4 (amended). Result Views are rendered exactly when circuitData holds
\* the artifact of the latest attempt and no channel is Generating: they are
\* absent while a request is in flight or settling, absent after a failed
\* attempt although circuitData still holds the artifact committed before
\* it, and present right after a commit that leaves no channel Generating.
C4_Gating ==
    /\ ResultViewsRendered <=>
           (circuitData /= NoArtifact /\ circuitData.id = session
                /\ ~isGenerating)
    /\ (requests /= {} \/ timers /= <<>>) => ~ResultViewsRendered
    /\ (lastOp.op = "commit" /\ ~isGenerating) => ResultViewsRendered

\* a commit has just revealed the Result Views
C4_Witness ==
    lastOp.op = "commit" /\ ResultViewsRendered /\ nextId > 2

\* C5 (as stated). Right after onStartGeneration(channel) the channel is
\* Generating, the previously committed artifact is cleared and the
\* measurement table is absent.
C5_StartClearsAsStated ==
    lastOp.op = "start" =>
        /\ generating[lastOp.ch]
        /\ circuitData = NoArtifact
        /\ simulationResults = NoTable

\* C5 (amended). Right after onStartGeneration(channel) the channel is
\* Generating, showResults is false so that no Result View shows the
\* earlier artifact (circuitData keeps it), and the measurement table is
\* absent.
C5_StartClears ==
    lastOp.op = "start" =>
        /\ generating[lastOp.ch]
        /\ ~showResults
        /\ ~ResultViewsRendered
        /\ simulationResults = NoTable

\* an attempt has just started over an artifact committed earlier
C5_Witness ==
    lastOp.op = "start" /\ circuitData /= NoArtifact

\* C6. Reset completeness: right after reset(), from any prior state, all
\* four in-flight flags are false, the committed artifact, the pending
\* artifact and the measurement table are absent, Layout's failure message
\* is cleared, and the active adapter's error, file and text are cleared.
C6_ResetCompleteness ==
    lastOp.op = "reset" =>
        /\ \A c \in Channels : ~generating[c]
        /\ circuitData = NoArtifact
        /\ pendingData = NoArtifact
        /\ simulationResults = NoTable
        /\ error = Null
        /\ adapter.error = Null
        /\ adapter.file = NoFile
        /\ adapter.input = ""

\* a reset has overtaken a staged artifact whose request is still settling
C6_Witness ==
    lastOp.op = "reset" /\ timers /= <<>> /\ requests /= {}

\* C7. Selecting a different channel while no channel is Generating makes
\* it the active channel, resets all channel states to Idle, clears the
\* committed artifact and the measurement table, and emits the reset
\* broadcast.
C7_SelectChannel ==
    [][(activeTab' /= activeTab /\ ~isGenerating) =>
          /\ lastOp'.op = "selectTab"
          /\ activeTab' = lastOp'.ch
          /\ \A c \in Channels : ~generating'[c]
          /\ circuitData' = NoArtifact
          /\ simulationResults' = NoTable
          /\ resetEvents' = resetEvents + 1
          /\ adapter' = Mounted(activeTab')]_vars

\* another channel has been selected after an artifact had been produced
C7_Witness ==
    /\ lastOp.op = "selectTab"
    /\ activeTab = "image"
    /\ resetEvents = 2
    /\ nextId > 1

\* C8. Selecting a channel while any channel is Generating is rejected by
\* the orchestrator itself: the active channel, every in-flight flag, the
\* pending slot and the committed artifact are left unchanged.
C8_SelectWhileGeneratingRejected ==
    [][(isGenerating /\ lastOp'.op = "selectTab"
            /\ resetEvents' /= resetEvents) =>
          UNCHANGED <<activeTab, generating, pendingData, circuitData>>]_vars

\* C9. While a request is suspended its channel's in-flight flag is true
\* and every tab is disabled; the flag is set by the start signal and stays
\* true until the failure signal or, on success, until the commit at the
\* end of the settle delay; so through the controls at most one attempt is
\* in flight or settling.
C9_InFlightExcludes ==
    /\ \A r \in requests : generating[r.channel] /\ ~TabEnabled
    /\ \A i \in DOMAIN timers : generating[timers[i].ch] /\ ~TabEnabled
    /\ Cardinality(requests) + Len(timers) <= 1
    /\ lastOp.op = "start" => generating[lastOp.ch]
    /\ isGenerating => (requests /= {} \/ timers /= <<>>)
    /\ (requests /= {} \/ timers /= <<>>) => ~SubmitEnabled

\* a response has been staged and is settling
C9_Witness ==
    timers /= <<>> /\ lastOp.op = "generated" /\ nextId = 3

\* C10. onGenerationFailed(channel, message) takes the channel out of
\* Generating, records exactly the message it was given, and changes
\* neither the committed artifact nor the pending slot nor the measurement
\* table.
C10_FailureRecorded ==
    [][(lastOp'.op = "failed" /\ requests' /= requests) =>
          /\ ~generating'[lastOp'.ch]
          /\ error' = lastOp'.msg
          /\ UNCHANGED <<circuitData, pendingData, simulationResults>>]_vars

\* a failure has been recorded while an earlier artifact is held
C10_Witness ==
    /\ lastOp.op = "failed"
    /\ error = "detail"
    /\ circuitData /= NoArtifact

\* C11. After a failed generation attempt, on any of the four channels, no
\* channel is Generating, the tabs, the Reset button and the Generate button
\* are interactive again, and the same channel accepts the same input again
\* and issues a new start signal; on the template channel the remembered
\* last-generated configuration is cleared, so that the identical
\* configuration can be resubmitted.
C11_RetryAfterFailure ==
    lastOp.op = "failed" =>
        /\ ~isGenerating
        /\ TabEnabled
        /\ ResetButtonShown
        /\ SubmitEnabled
        /\ activeTab = lastOp.ch
        /\ adapter.lastGeneratedConfig = ""
        /\ nextId <= MaxAttempts => ENABLED handleSubmit

\* the same template configuration has been submitted again after a
\* failure, and has failed again
C11_Witness ==
    /\ lastOp.op = "failed"
    /\ lastOp.id = 2
    /\ activeTab = "template"
    /\ adapter.selectedType = "bell_state"
    /\ resetCounter = 1

\* C12. A local validation failure (empty or whitespace-only text, no file
\* selected, wrong file type) is handled inside the adapter: it shows the
\* adapter's own message, sends no start, success or failure signal, issues
\* no request, and leaves every variable of Layout unchanged.
C12_ValidationLocal ==
    [][(\/ lastOp'.op = "invalid"
        \/ lastOp'.op = "fileChange" /\ adapter'.error /= Null) =>
          /\ UNCHANGED <<layoutVars, requests, timers, nextId>>
          /\ lastOp'.ch /= "template" => adapter'.error /= Null]_vars

\* whitespace-only text has been submitted
C12_Witness ==
    /\ lastOp.op = "invalid"
    /\ adapter.input = "  "
    /\ adapter.error = "Please enter a circuit description"

\* a response carries an error field
HasErrorField(data) == data.error /= Null \/ data.explanationError /= Null

\* C13. A successful response whose payload carries an error field, at the
\* top level or in its explanation, is not a failure: it is staged and
\* committed like any other, its channel leaves Generating with no failure
\* message recorded, and the Result Views are revealed with the explanation
\* view in its inline error state.
C13_SemanticErrorCommits ==
    /\ (lastOp.op = "generated" /\ HasErrorField(pendingData)) =>
           /\ pendingData.id = lastOp.id
           /\ timers /= <<>>
           /\ generating[lastOp.ch]
    /\ (lastOp.op = "commit" /\ HasErrorField(circuitData)) =>
           /\ circuitData.id = lastOp.id
           /\ ~generating[lastOp.ch]
           /\ error = Null
           /\ ResultViewsRendered
           /\ ExplanationView(circuitData) = "error"

\* a response whose explanation carries an error has been committed
C13_Witness ==
    /\ lastOp.op = "commit"
    /\ circuitData.explanationError /= Null
    /\ ResultViewsRendered

\* C14. Conservation: for every circuit type (bell_state, ghz_state,
\* w_state, any other) and every qubit count >= 1 the counts of the
\* synthesized table are non-negative integers whose sum is exactly 1024.
C14_Conservation ==
    simulationResults /= NoTable =>
        /\ \A k \in DOMAIN simulationResults.counts :
               simulationResults.counts[k].count \in Nat
        /\ Sum(simulationResults.counts) = 1024

\* a table has been synthesized for a 3-qubit w_state
C14_Witness ==
    /\ lastOp.op = "simulate"
    /\ circuitData.circuit_type = "w_state"
    /\ circuitData.num_qubits = 3
    /\ simulationResults /= NoTable

C16_KeyLength ==
    simulationResults /= NoTable =>
        \A k \in DOMAIN simulationResults.counts :
            /\ Len(simulationResults.counts[k].state)
                   = simulationResults.numQubits
            /\ \A j \in DOMAIN simulationResults.counts[k].state :
                   simulationResults.counts[k].state[j] \in {0, 1}

\* C17. For bell_state with 1024 shots the table has exactly the outcomes
\* "00" with 491 and "11" with 533.
C17_BellExample ==
    (simulationResults /= NoTable /\ circuitData.circuit_type = "bell_state")
        => /\ Len(simulationResults.counts) = 2
           /\ Keys(simulationResults.counts) = {<<0, 0>>, <<1, 1>>}
           /\ Get(simulationResults.counts, <<0, 0>>) = 491
           /\ Get(simulationResults.counts, <<1, 1>>) = 533

\* a table has been synthesized for a 2-qubit bell_state
C17_Witness ==
    /\ simulationResults /= NoTable
    /\ circuitData.circuit_type = "bell_state"
    /\ circuitData.num_qubits = 2

\* C18. For ghz_state and every qubit count n >= 1 the table has exactly
\* two outcomes, the all-zero and the all-one string of length n, with
\* floor(totalShots * 0.48) on the zeros and the remainder on the ones.
C18_Ghz ==
    (simulationResults /= NoTable /\ circuitData.circuit_type = "ghz_state")
        => LET n == circuitData.num_qubits
               zeros == [k \in 1..n |-> 0]
               ones == [k \in 1..n |-> 1]
           IN /\ Len(simulationResults.counts) = 2
              /\ Keys(simulationResults.counts) = {zeros, ones}
              /\ Get(simulationResults.counts, zeros) = (1024 * 48) \div 100
              /\ Get(simulationResults.counts, ones)
                     = 1024 - (1024 * 48) \div 100

\* a table has been synthesized for a 3-qubit ghz_state
C18_Witness ==
    /\ simulationResults /= NoTable
    /\ circuitData.circuit_type = "ghz_state"
    /\ circuitData.num_qubits = 3

\* C19. For w_state and every qubit count n >= 1 the table has exactly n
\* outcomes; the i-th generated one is the length-n bitstring with a single
\* 1 at position i (counted from the left, as the string index); the first
\* n - 1 each get floor(totalShots / n) and the last gets totalShots minus
\* the sum of the others.  For n = 3 the outcomes are 001, 010 and 100, the
\* first two generated get 341 each and the last generated gets 342.
C19_WState ==
    (simulationResults /= NoTable /\ circuitData.circuit_type = "w_state")
        => LET n == circuitData.num_qubits
               counts == simulationResults.counts
           IN /\ Len(counts) = n
              /\ \A i \in 1..n :
                   /\ Len(counts[i].state) = n
                   /\ \A j \in 1..n : counts[i].state[j] = 1 <=> j = i
                   /\ i < n => counts[i].count = 1024 \div n
              /\ counts[n].count = 1024 - (n - 1) * (1024 \div n)
              /\ n = 3 =>
                   /\ Keys(counts) = {<<0, 0, 1>>, <<0, 1, 0>>, <<1, 0, 0>>}
                   /\ counts[1].count = 341
                   /\ counts[2].count = 341
                   /\ counts[3].count = 342

\* a table has been synthesized for a 3-qubit w_state by a second run
C19_Witness ==
    /\ lastOp.op = "rerun"
    /\ circuitData.circuit_type = "w_state"
    /\ circuitData.num_qubits = 3
    /\ simulationResults /= NoTable

\* the integer a bitstring denotes
RECURSIVE BitValue(_)
BitValue(bits) ==
    IF bits = <<>> THEN 0
    ELSE 2 * BitValue(SubSeq(bits, 1, Len(bits) - 1)) + bits[Len(bits)]

\* C20. For a circuit type the synthesizer does not recognize and every
\* qubit count n >= 1 the table has at most min(2^n, 16) outcomes; its keys
\* are the binary representations of 0, 1, 2, ... in increasing order,
\* zero-padded to n bits; no allocation exceeds the shots remaining when it
\* is made; and all leftover shots go to the final outcome
\* min(2^n, 16) - 1.
C20_Default ==
    (/\ simulationResults /= NoTable
     /\ circuitData.circuit_type
            \notin {"bell_state", "ghz_state", "w_state"})
        => LET n == circuitData.num_qubits
               counts == simulationResults.counts
               maxStates == IF n >= 4 THEN 16 ELSE 2 ^ n
               before(k) == Sum(SubSeq(counts, 1, k - 1))
           IN /\ Len(counts) <= maxStates
              /\ \A k \in DOMAIN counts :
                   /\ Len(counts[k].state) = n
                   /\ \A j \in 1..n : counts[k].state[j] \in {0, 1}
                   /\ BitValue(counts[k].state) = k - 1
                   /\ counts[k].count >= 0
                   /\ counts[k].count <= 1024 - before(k)
              /\ Len(counts) >= maxStates - 1
              /\ Sum(counts) = 1024

\* a table has been synthesized for a 5-qubit circuit of another type
C20_Witness ==
    /\ simulationResults /= NoTable
    /\ circuitData.circuit_type = "hadamard"
    /\ circuitData.num_qubits = 5
    /\ Len(simulationResults.counts) = 16

\* C21. When the artifact's num_qubits is below 1 (zero, negative or
\* missing) the measurement view shows no error: the run falls back to 3
\* qubits and produces a table for 3 qubits whose counts sum to 1024.
C21_Fallback ==
    (lastOp.op = "simulate" /\ circuitData.num_qubits < 1) =>
        /\ simError = Null
        /\ simulationResults /= NoTable
        /\ simulationResults.numQubits = 3
        /\ Sum(simulationResults.counts) = 1024

\* C22. The probabilities map of every synthesized table has the keys of
\* counts, and for every key k probabilities[k] * totalShots = counts[k],
\* so that every probability lies in [0, 1].
C22_Probabilities ==
    simulationResults /= NoTable =>
        LET counts == simulationResults.counts
            probabilities == simulationResults.probabilities
        IN /\ {probabilities[k].state : k \in DOMAIN probabilities}
                  = Keys(counts)
           /\ Len(probabilities) = Len(counts)
           /\ \A k \in DOMAIN probabilities :
                LET p == probabilities[k].probability
                    shift == p.e + 10
                IN /\ shift >= 0
                   /\ p.m * (2 ^ shift)
                          = Get(counts, probabilities[k].state)
                   /\ p.m >= 0
                   /\ p.m * (2 ^ shift) <= 1024

\* a table with 16 outcomes and its probabilities have been synthesized
C22_Witness ==
    /\ simulationResults /= NoTable
    /\ Len(simulationResults.probabilities) = 16
    /\ circuitData.circuit_type = "ising"

\* C23. A measurement table that is present is the synthesizer's output
\* for the artifact now committed; the table is absent right after every
\* start, commit, reset and channel change, and is computed from scratch
\* afterwards, so it is never the table of an earlier artifact nor a merge
\* of two tables.
C23_TableOfCommitted ==
    /\ simulationResults /= NoTable =>
           /\ circuitData /= NoArtifact
           /\ simulationResults.of = circuitData.id
           /\ simulationResults.numQubits = NumQubits(circuitData)
           /\ simulationResults.counts
                  = Synthesize(circuitData.circuit_type,
                               NumQubits(circuitData))
    /\ lastOp.op \in {"start", "commit", "reset", "selectTab"} =>
           simulationResults = NoTable

\* a table has been computed for the artifact of a second attempt
C23_Witness ==
    /\ lastOp.op = "simulate"
    /\ circuitData.id = 2
    /\ simulationResults.of = 2
    /\ circuitData.circuit_type = "w_state"

\* C24. Whenever the diagram's intrinsic width and the container's width
\* are both positive, the computed zoom factor is
\* min(1, containerWidth / intrinsicWidth).
C24_ComputedZoom ==
    (ResultViewsRendered /\ vis.imageWidth > 0 /\ vis.containerWidth > 0) =>
        IF vis.containerWidth >= vis.imageWidth
        THEN vis.optimalZoom = One
        ELSE /\ vis.optimalZoom < One
             /\ vis.optimalZoom * vis.imageWidth = One * vis.containerWidth

\* a diagram wider than its container has been measured
C24_Witness ==
    /\ ResultViewsRendered
    /\ vis.imageWidth = 1600
    /\ vis.containerWidth = 400
    /\ vis.optimalZoom = 5

\* C25. Once the user has zoomed by hand, the displayed zoom stays at the
\* manual value through every later container resize, full-screen change
\* and dimension update, and goes back to the computed value only when
\* the user asks for 'fit to container'.
C25_ManualZoomKept ==
    manualZoom.set => vis.zoomLevel = manualZoom.level

\* C26. 'Fit to container' sets the zoom to the zoom factor computed last,
\* which is min(1, containerWidth / intrinsicWidth) when both widths are
\* positive; pressing it again changes nothing.
C26_Fit ==
    [][lastOp'.op = "fit" =>
          /\ vis'.zoomLevel = vis.optimalZoom
          /\ vis'.optimalZoom = vis.optimalZoom
          /\ (vis.imageWidth > 0 /\ vis.containerWidth > 0
                  /\ vis.containerWidth < vis.imageWidth) =>
                 vis'.zoomLevel * vis.imageWidth = One * vis.containerWidth
          /\ (vis.imageWidth > 0 /\ vis.containerWidth >= vis.imageWidth) =>
                 vis'.zoomLevel = One
          /\ lastOp.op = "fit" => vis' = vis]_vars

\* the button has been pressed twice in a row after a manual zoom, on a
\* diagram fitted below the level 1
C26_Witness ==
    /\ lastOp.op = "fit"
    /\ lastOp.id = 2
    /\ vis.zoomLevel = vis.optimalZoom
    /\ vis.optimalZoom < One

\* C27. After any zoom-out step the zoom level is at least 10%.
C27_Floor ==
    lastOp.op = "zoomOut" => vis.zoomLevel >= Tenth

\* a zoom-out step was taken at the floor, and stayed there
C27_Witness ==
    /\ lastOp.op = "zoomOut"
    /\ lastOp.id = Tenth
    /\ vis.zoomLevel = Tenth

\* C28. When the template list cannot be fetched (transport error,
\* non-success status, a body that is not an array) or comes back empty,
\* the template adapter keeps its built-in list of the single entry
\* bell_state, records no error, has its loading flag false again, and
\* generation from the default template is available.
C28_TemplateFallback ==
    (lastOp.op = "templates" /\ lastOp.msg \in {"failed", "empty"}) =>
        /\ adapter.circuitTypes = {"bell_state"}
        /\ adapter.selectedType = "bell_state"
        /\ adapter.error = Null
        /\ error = Null
        /\ ~adapter.loadingTemplates
        /\ SubmitEnabled

\* the fetch has failed on a mounted template adapter
C28_Witness ==
    /\ lastOp.op = "templates"
    /\ lastOp.msg = "failed"
    /\ activeTab = "template"
    /\ adapter.circuitTypes = {"bell_state"}

\* C29. Commits follow the order in which the responses arrive, not the
\* order in which the attempts were started: once every settle delay has
\* elapsed, the committed artifact is that of the response received last.
C29_CompletionOrder ==
    (timers = <<>> /\ lastCompleted /= 0) =>
        /\ circuitData /= NoArtifact
        /\ circuitData.id = lastCompleted

\* the attempt started first was answered last, after the other one had
\* been committed, and its artifact is the one committed in the end
C29_Witness ==
    /\ race.stage = "Aarrived"
    /\ race.a < race.b
    /\ timers = <<>>
    /\ lastCompleted = race.a
    /\ circuitData.id = race.a

\* C30. At most one channel's in-flight flag is true, and a channel whose
\* flag is true is the active channel, also when a channel selection or a
\* reset is delivered while a request is in flight.
C30_OneInFlight ==
    /\ Cardinality({c \in Channels : generating[c]}) <= 1
    /\ \A c \in Channels : generating[c] => c = activeTab

\* a generation has been started on another channel while the request of
\* the channel left behind is still awaiting its response
C30_Witness ==
    /\ lastOp.op = "start"
    /\ generating[activeTab]
    /\ \E r \in requests : r.channel /= activeTab /\ ~r.live

\* C31. All channels share one pending slot, and a settle timer commits
\* what the slot holds when it fires, not the artifact that set the timer:
\* it commits a later staged artifact, clearing the in-flight flag of its
\* own channel only, and it commits 'no artifact' after a reset has
\* emptied the slot.
C31_TimerCommitsSlot ==
    [][lastOp'.op = "commit" =>
          /\ timers /= <<>>
          /\ timers' = Tail(timers)
          /\ circuitData' = pendingData
          /\ pendingData' = pendingData
          /\ generating' = [generating EXCEPT ![Head(timers).ch] = FALSE]]_vars

\* the timer of the first response has committed the artifact of the
\* second, whose channel is still Generating and whose timer is pending
C31_Witness ==
    /\ lastOp.op = "commit"
    /\ circuitData /= NoArtifact
    /\ circuitData.id /= lastOp.id
    /\ circuitData.channel /= lastOp.ch
    /\ generating[circuitData.channel]
    /\ timers /= <<>>

\* a timer has fired after a reset emptied the slot
C31_EmptyCommit ==
    /\ lastOp.op = "commit"
    /\ circuitData = NoArtifact
    /\ showResults

\* C32. Every attempt whose request resolves leaves Generating: a failure
\* signal clears the channel's in-flight flag at once, and a channel that
\* is Generating while a settle timer of its own is pending is eventually
\* not Generating, also when a reset or a channel change came in between.
C32_LeavesGenerating ==
    /\ [][lastOp'.op = "failed" => ~generating'[lastOp'.ch]]_vars
    /\ \A c \in Channels :
         (generating[c] /\ \E i \in DOMAIN timers : timers[i].ch = c)
             ~> ~generating[c]

\* the response of an attempt made before a reset has arrived while a
\* newer attempt of the same channel is Generating
C32_Witness ==
    /\ lastOp.op = "generated"
    /\ generating[lastOp.ch]
    /\ resetCounter > 0
    /\ \E r \in requests :
         r.channel = lastOp.ch /\ r.live /\ r.id > lastOp.id

\* C33. In each of the four adapters an accepted submit gives exactly one
\* start signal and opens one request; when the request resolves it gives
\* exactly one signal, success or failure, and closes the request.  No
\* success or failure signal comes without a request opened by a start,
\* and a submit that is not accepted gives no signal at all.
C33_OneSignalEach ==
    [][/\ lastOp'.op = "start" =>
            /\ lastOp'.ch = activeTab
            /\ lastOp'.id = nextId
            /\ nextId' = nextId + 1
            /\ \A r \in requests : r.id < nextId
            /\ requests' = requests \cup
                   {[id |-> nextId, channel |-> activeTab, live |-> TRUE]}
            /\ generating'[activeTab]
       /\ lastOp'.op \in {"generated", "failed"} =>
            \E r \in requests :
                /\ r.id = lastOp'.id
                /\ r.channel = lastOp'.ch
                /\ requests' = requests \ {r}
                /\ \A q \in requests' : q.id /= r.id
                /\ IF lastOp'.op = "generated"
                   THEN /\ Len(timers') = Len(timers) + 1
                        /\ pendingData'.id = r.id
                        /\ error' = error
                   ELSE /\ timers' = timers
                        /\ pendingData' = pendingData
                        /\ error' = lastOp'.msg
       /\ (Len(timers') > Len(timers) \/ pendingData'.id > pendingData.id) =>
            lastOp'.op = "generated"
       /\ (error' /= error /\ error' /= Null) => lastOp'.op = "failed"
       /\ {r.id : r \in requests'} /= {r.id : r \in requests} =>
            lastOp'.op \in {"start", "generated", "failed"}
       /\ lastOp'.op = "invalid" =>
            UNCHANGED <<requests, timers, generating, pendingData, error,
                        nextId>>]_vars

\* the second attempt, made from the file adapter, has been answered and
\* no request is open
C33_Witness ==
    /\ lastOp.op \in {"generated", "failed"}
    /\ lastOp.id = 2
    /\ lastOp.ch = "file"
    /\ requests = {}

\* C34. Selecting the channel that is active already, while no channel is
\* Generating, is a full reset like the selection of another channel: the
\* committed artifact, the pending slot, the measurement table, the
\* failure message and the adapter's input are cleared.
C34_SameTabResets ==
    [][(lastOp'.op = "selectTab" /\ lastOp'.ch = activeTab
            /\ ~isGenerating) =>
          /\ activeTab' = activeTab
          /\ circuitData' = NoArtifact
          /\ pendingData' = NoArtifact
          /\ simulationResults' = NoTable
          /\ error' = Null
          /\ ~showResults'
          /\ adapter' = Mounted(activeTab)
          /\ resetCounter' = resetCounter + 1
          /\ resetEvents' = resetEvents + 1]_vars

\* the text tab, active since the start, has been clicked after an
\* attempt had been made there
C34_Witness ==
    /\ lastOp.op = "selectTab"
    /\ lastOp.ch = "text"
    /\ resetCounter = 1
    /\ nextId = 2
    /\ circuitData = NoArtifact
    /\ adapter.input = ""

\* C35. The start signal leaves the failure message recorded by the
\* orchestrator as it is: the message of a failed attempt stays while the
\* next attempt is Generating, and is cleared only by a commit, a reset or
\* a channel selection.
C35_StartKeepsError ==
    [][/\ lastOp'.op = "start" => error' = error
       /\ (error /= Null /\ error' /= error) =>
            lastOp'.op \in {"commit", "reset", "selectTab", "failed"}
       /\ (error /= Null /\ error' = Null) =>
            lastOp'.op \in {"commit", "reset", "selectTab"}]_vars

\* the next attempt is Generating and the message of the failed one is
\* still recorded
C35_Witness ==
    /\ lastOp.op = "start"
    /\ lastOp.id = 2
    /\ generating[activeTab]
    /\ error /= Null

\* C36. The template adapter ignores a generate request (no start signal,
\* no request) while its channel is Generating or while the selected type
\* and parameters are the configuration submitted last; it submits
\* otherwise and remembers the configuration.  A type change, a parameter
\* change, a failed attempt and a reset clear the remembered
\* configuration, and the same configuration is accepted again.
C36_TemplateDedup ==
    [][/\ lastOp'.op = "ignored" =>
            /\ \/ generating["template"]
               \/ ConfigString(adapter) = adapter.lastGeneratedConfig
            /\ UNCHANGED <<layoutVars, adapter, requests, timers, nextId>>
       /\ (lastOp'.op = "start" /\ lastOp'.ch = "template") =>
            /\ ~generating["template"]
            /\ ConfigString(adapter) /= adapter.lastGeneratedConfig
            /\ adapter'.lastGeneratedConfig = ConfigString(adapter)
            /\ ConfigString(adapter') = ConfigString(adapter)
       /\ lastOp'.op \in {"typeChange", "paramChange"} =>
            /\ adapter'.lastGeneratedConfig = ""
            /\ SubmitEnabled'
       /\ (lastOp'.op = "failed" /\ lastOp'.ch = "template"
               /\ activeTab = "template") =>
            /\ adapter'.lastGeneratedConfig = ""
            /\ ConfigString(adapter') = ConfigString(adapter)
            /\ SubmitEnabled'
       /\ (lastOp'.op \in {"reset", "selectTab"}
               /\ activeTab' = "template") =>
            adapter'.lastGeneratedConfig = ""
       /\ lastOp'.op = "templates" => SubmitEnabled']_vars

\* the configuration of a failed attempt, with a parameter set by hand,
\* has been submitted again
C36_Witness ==
    /\ lastOp.op = "start"
    /\ lastOp.ch = "template"
    /\ lastOp.id = 2
    /\ error /= Null
    /\ adapter.parameters = [num_qubits |-> 3]
    /\ adapter.lastGeneratedConfig = "ghz_state-{\"num_qubits\":3}"

\* C37. In the branch for circuit types the synthesizer does not recognize,
\* with 1024 shots and a qubit count n >= 1, the remaining shots never reach
\* zero before the final outcome: every share taken is strictly smaller
\* than the shots remaining when it is taken, the final outcome receives
\* the remainder, which is at least 1 shot, and the table has exactly
\* min(2^n, 16) keys.
C37_RemainderPositive ==
    (/\ simulationResults /= NoTable
     /\ circuitData.circuit_type
            \notin {"bell_state", "ghz_state", "w_state"}
     /\ circuitData.num_qubits >= 1)
        => LET counts == simulationResults.counts
               maxStates == Min(Pow2(circuitData.num_qubits), 16)
               remaining(k) == totalShots - Sum(SubSeq(counts, 1, k - 1))
           IN /\ Len(counts) = maxStates
              /\ \A k \in 1..(maxStates - 1) :
                   /\ remaining(k) > 0
                   /\ counts[k].count < remaining(k)
              /\ counts[maxStates].count = remaining(maxStates)
              /\ counts[maxStates].count >= 1

\* a 16-outcome table has been synthesized for the type whose first
\* character gives the largest factor (0.9)
C37_Witness ==
    /\ simulationResults /= NoTable
    /\ circuitData.circuit_type = "custom"
    /\ circuitData.num_qubits = 5
    /\ Len(simulationResults.counts) = 16
    /\ simulationResults.counts[16].count >= 1

\* C38. For circuit types the synthesizer does not recognize the table
\* depends only on the qubit count and on the character code of the type's
\* first character modulo 10: a run for a type whose first character has
\* the same code modulo 10 as the type of the first run, with the same qubit
\* count, gives the table the first run gave.
C38_SameCodeSameTable ==
    (/\ simulationResults /= NoTable
     /\ firstRun /= NoRun
     /\ firstRun.circuit_type \notin {"bell_state", "ghz_state", "w_state"}
     /\ circuitData.circuit_type
            \notin {"bell_state", "ghz_state", "w_state"}
     /\ charCodeAt0(firstRun.circuit_type) % 10
            = charCodeAt0(circuitData.circuit_type) % 10
     /\ firstRun.numQubits = NumQubits(circuitData)) =>
        simulationResults.counts = firstRun.counts

\* the first run was made for "adder" (code 97) and a table is shown for
\* a "kitaev" circuit (code 107) of the same qubit count
C38_Witness ==
    /\ simulationResults /= NoTable
    /\ firstRun /= NoRun
    /\ firstRun.circuit_type = "adder"
    /\ circuitData.circuit_type = "kitaev"
    /\ firstRun.numQubits = NumQubits(circuitData)
    /\ firstRun.numQubits = 4

\* C39. A manual zoom-out step never yields a zoom level greater than the
\* level before the step, from every zoom level the view can reach,
\* including the auto-fitted levels below 10%.
C39_ZoomOutNeverIn ==
    [][lastOp'.op = "zoomOut" => vis'.zoomLevel <= vis.zoomLevel]_vars

====
